---- MODULE Spec2Model ----
(***************************************************************************)
(* Model of the env-variables crate (src/src/lib.rs): is_no_proxy and      *)
(* for_url over the process environment, and the locked test threads.      *)
(*                                                                         *)
(* Strings are TLA+ strings, read character by character with Len, SubSeq  *)
(* and \o.  The url crate (Url::parse, host_str, port, set_port, as_str)   *)
(* is modelled for URLs written with lowercase letters, digits and the     *)
(* characters . - : / only, with no host label that begins with "xn--".    *)
(***************************************************************************)
EXTENDS Integers, Sequences, FiniteSets, TLC

(***************************************************************************)
(* Option<T> and OsString                                                  *)
(***************************************************************************)
None == [some |-> FALSE]

Some(v) == [some |-> TRUE, val |-> v]

\* Option::or_else / Option::or: the receiver if it is Some, else the other.
or_else(a, b) == IF a.some THEN a ELSE b

\* An OsString: valid UTF-8 text, or bytes that are not UTF-8.
Os(s) == [utf8 |-> TRUE, text |-> s]

NonUtf8 == [utf8 |-> FALSE, text |-> "?"]

\* .map(|v| v.to_str().unwrap_or("").to_string())
to_str_or_empty(o) ==
    IF o.some THEN Some(IF o.val.utf8 THEN o.val.text ELSE "") ELSE None

(***************************************************************************)
(* str helpers                                                             *)
(***************************************************************************)
\* The slice s[i..=j] (1-based), cut to the string; empty when i > j.
Sub(s, i, j) ==
    IF i > j \/ i > Len(s) THEN ""
    ELSE SubSeq(s, i, IF j > Len(s) THEN Len(s) ELSE j)

Chr(s, i) == IF i < 1 \/ i > Len(s) THEN "" ELSE SubSeq(s, i, i)

\* str::ends_with: the empty pattern is a suffix of every string.
ends_with(s, t) ==
    /\ Len(t) <= Len(s)
    /\ Sub(s, Len(s) - Len(t) + 1, Len(s)) = t

IsSep(c) == c = "," \/ c = " "

\* str::split(|c| c == ',' || c == ' '): the pieces between separators,
\* empty pieces included; i scans s, start is where the current piece began.
RECURSIVE split_from(_, _, _)
split_from(s, start, i) ==
    IF i > Len(s) THEN << Sub(s, start, Len(s)) >>
    ELSE IF IsSep(Chr(s, i))
         THEN << Sub(s, start, i - 1) >> \o split_from(s, i + 1, i + 1)
         ELSE split_from(s, start, i + 1)

split(s) == split_from(s, 1, 1)

(***************************************************************************)
(* url::Url                                                                *)
(***************************************************************************)
Lower == {"a", "b", "c", "d", "e", "f", "g", "h", "i", "j", "k", "l", "m",
          "n", "o", "p", "q", "r", "s", "t", "u", "v", "w", "x", "y", "z"}

Digit == {"0", "1", "2", "3", "4", "5", "6", "7", "8", "9"}

DigitVal(c) ==
    CASE c = "0" -> 0 [] c = "1" -> 1 [] c = "2" -> 2 [] c = "3" -> 3
      [] c = "4" -> 4 [] c = "5" -> 5 [] c = "6" -> 6 [] c = "7" -> 7
      [] c = "8" -> 8 [] c = "9" -> 9

MaxPort == 65535

NoPort == -1

NoHost == [some |-> FALSE]

ParseErr == [ok |-> FALSE]

\* Default port of the special schemes; NoPort for every other scheme.
default_port(scheme) ==
    CASE scheme = "http"  -> 80
      [] scheme = "ws"    -> 80
      [] scheme = "https" -> 443
      [] scheme = "wss"   -> 443
      [] scheme = "ftp"   -> 21
      [] OTHER            -> NoPort

is_special(scheme) == scheme \in {"http", "https", "ws", "wss", "ftp", "file"}

\* Length of the scheme: the index before the first ':', provided the text
\* starts with a letter and has only scheme characters up to there; 0 if not.
RECURSIVE scheme_end(_, _)
scheme_end(s, i) ==
    IF i > Len(s) THEN 0
    ELSE IF Chr(s, i) = ":" THEN (IF i = 1 THEN 0 ELSE i - 1)
    ELSE IF Chr(s, i) \in Lower \/ (i > 1 /\ Chr(s, i) \in Digit \cup {"+", "-", "."})
         THEN scheme_end(s, i + 1)
         ELSE 0

\* Index of the first character at or after i that is not '/'.
RECURSIVE skip_slashes(_, _)
skip_slashes(s, i) ==
    IF i <= Len(s) /\ Chr(s, i) = "/" THEN skip_slashes(s, i + 1) ELSE i

\* Index of the first character at or after i that is in stop, or Len(s) + 1.
RECURSIVE find(_, _, _)
find(s, i, stop) ==
    IF i > Len(s) \/ Chr(s, i) \in stop THEN i ELSE find(s, i + 1, stop)

\* A port number, capped just above MaxPort.
capped(n) == IF n > MaxPort THEN MaxPort + 1 ELSE n

\* Decimal value of the digits s[i..], capped just above MaxPort; -2 when a
\* character is not a digit.
RECURSIVE parse_digits(_, _, _)
parse_digits(s, i, acc) ==
    IF i > Len(s) THEN acc
    ELSE IF Chr(s, i) \notin Digit THEN -2
    ELSE parse_digits(s, i + 1, capped(acc * 10 + DigitVal(Chr(s, i))))

HostChars == Lower \cup Digit \cup {".", "-"}

valid_host(h) == \A i \in 1..Len(h) : Chr(h, i) \in HostChars

\* The pieces of s between occurrences of the character sep, empty pieces
\* included (str::split(sep)).
RECURSIVE split_at(_, _, _, _)
split_at(s, sep, start, i) ==
    IF i > Len(s) THEN << Sub(s, start, Len(s)) >>
    ELSE IF Chr(s, i) = sep
         THEN << Sub(s, start, i - 1) >> \o split_at(s, sep, i + 1, i + 1)
         ELSE split_at(s, sep, start, i + 1)

HexVal(c) ==
    CASE c \in Digit -> DigitVal(c)
      [] c = "a" -> 10 [] c = "b" -> 11 [] c = "c" -> 12
      [] c = "d" -> 13 [] c = "e" -> 14 [] c = "f" -> 15

\* The digits of base r.
RadixDigits(r) ==
    IF r = 8 THEN {"0", "1", "2", "3", "4", "5", "6", "7"}
    ELSE IF r = 10 THEN Digit
    ELSE Digit \cup {"a", "b", "c", "d", "e", "f"}

Octet == 256

ZeroU32 == <<0, 0, 0, 0>>

\* u32::from_str_radix on the digits s[i..]: the value as four octets, most
\* significant first, or overflow.
RECURSIVE from_str_radix(_, _, _, _)
from_str_radix(s, i, r, acc) ==
    IF i > Len(s) THEN [overflow |-> FALSE, val |-> acc]
    ELSE LET n4 == acc[4] * r + HexVal(Chr(s, i))
             n3 == acc[3] * r + n4 \div Octet
             n2 == acc[2] * r + n3 \div Octet
             n1 == acc[1] * r + n2 \div Octet
         IN  IF n1 >= Octet THEN [overflow |-> TRUE, val |-> ZeroU32]
             ELSE from_str_radix(s, i + 1, r,
                                 <<n1, n2 % Octet, n3 % Octet, n4 % Octet>>)

\* parse_ipv4number: one dot-separated part of an IPv4 host, decimal, octal
\* after a leading 0, hexadecimal after 0x.  kind is "err" for a part that is
\* not a number, "overflow" for one beyond u32, else "num".
parse_ipv4number(part) ==
    LET hex    == Sub(part, 1, 2) = "0x"
        oct    == ~hex /\ Len(part) >= 2 /\ Chr(part, 1) = "0"
        r      == IF hex THEN 16 ELSE IF oct THEN 8 ELSE 10
        digits == IF hex THEN Sub(part, 3, Len(part))
                  ELSE IF oct THEN Sub(part, 2, Len(part)) ELSE part
        n      == from_str_radix(digits, 1, r, ZeroU32)
    IN  IF part = "" THEN [kind |-> "err", val |-> ZeroU32]
        ELSE IF digits = "" THEN [kind |-> "num", val |-> ZeroU32]
        ELSE IF \E i \in 1..Len(digits) : Chr(digits, i) \notin RadixDigits(r)
             THEN [kind |-> "err", val |-> ZeroU32]
        ELSE IF n.overflow THEN [kind |-> "overflow", val |-> ZeroU32]
        ELSE [kind |-> "num", val |-> n.val]

\* The parts without the empty part after one trailing dot.
drop_last_empty(parts) ==
    IF Len(parts) > 1 /\ parts[Len(parts)] = ""
    THEN SubSeq(parts, 1, Len(parts) - 1) ELSE parts

\* The parts of a host.
host_parts(h) == drop_last_empty(split_at(h, ".", 1, 1))

\* A part that is all digits, or that parse_ipv4number takes.
is_number(part) ==
    \/ part # "" /\ \A i \in 1..Len(part) : Chr(part, i) \in Digit
    \/ parse_ipv4number(part).kind # "err"

\* Index of the last occurrence of the character c at or before i, or 0.
RECURSIVE rfind(_, _, _)
rfind(s, i, c) == IF i < 1 \/ Chr(s, i) = c THEN i ELSE rfind(s, i - 1, c)

\* The last part of a host (rsplit('.')), the one before it when the host
\* ends with a dot.
last_part(h) ==
    IF Chr(h, Len(h)) = "."
    THEN Sub(h, rfind(h, Len(h) - 1, ".") + 1, Len(h) - 1)
    ELSE Sub(h, rfind(h, Len(h), ".") + 1, Len(h))

\* ends_in_a_number: the last part of the host is a number.
ends_in_a_number(h) == is_number(last_part(h))

\* The numbers of the parts of a host, each as parse_ipv4number gives it.
ipv4_numbers(parts) == [i \in 1..Len(parts) |-> parse_ipv4number(parts[i])]

\* The address of the numbers nums: all but the last are octets, the last
\* fills the remaining octets; an error when a number does not fit.
ipv4_of_numbers(nums) ==
    LET n == Len(nums)
        octet(i) == IF i < n THEN nums[i].val[4] ELSE nums[n].val[i]
    IN  IF n > 4 THEN [ok |-> FALSE]
        ELSE IF \E i \in 1..n : nums[i].kind # "num" THEN [ok |-> FALSE]
        ELSE IF \E i \in 1..(n - 1) : nums[n].val[i] # 0 THEN [ok |-> FALSE]
        ELSE IF \E i \in 1..(n - 1) : SubSeq(nums[i].val, 1, 3) # <<0, 0, 0>>
             THEN [ok |-> FALSE]
        ELSE [ok |-> TRUE,
              host |-> ToString(octet(1)) \o "." \o ToString(octet(2)) \o "."
                       \o ToString(octet(3)) \o "." \o ToString(octet(4))]

\* parse_ipv4addr: the dotted form a.b.c.d of a numeric host, or an error.
parse_ipv4addr(h) == ipv4_of_numbers(ipv4_numbers(host_parts(h)))

\* Host::parse for the host of a special scheme: a domain, or an IPv4
\* address when the host ends in a number.
parse_special_host(h) ==
    IF ~valid_host(h) THEN [ok |-> FALSE]
    ELSE IF h # "" /\ ends_in_a_number(h) THEN parse_ipv4addr(h)
    ELSE [ok |-> TRUE, host |-> h]

\* A Windows drive letter as a path segment of a file URL: "c:".
is_drive_letter(seg) == Len(seg) = 2 /\ Chr(seg, 1) \in Lower /\ Chr(seg, 2) = ":"

\* The segments left after ".." : the last one is dropped, except a drive
\* letter, which stays whatever the scheme.
shorten_path(segs) ==
    IF segs = <<>> THEN segs
    ELSE IF is_drive_letter(segs[Len(segs)]) THEN segs
    ELSE SubSeq(segs, 1, Len(segs) - 1)

\* The path segments of raw[i..] appended to segs, with "." and ".." resolved.
RECURSIVE resolve_segments(_, _, _)
resolve_segments(raw, i, segs) ==
    IF i > Len(raw) THEN segs
    ELSE LET last == i = Len(raw)
             next == IF raw[i] = ".."
                     THEN (IF last THEN Append(shorten_path(segs), "")
                           ELSE shorten_path(segs))
                     ELSE IF raw[i] = "."
                     THEN (IF last THEN Append(segs, "") ELSE segs)
                     ELSE Append(segs, raw[i])
         IN  resolve_segments(raw, i + 1, next)

\* The segments of the path p, which begins with '/'.
path_segments(p) == resolve_segments(split_at(Sub(p, 2, Len(p)), "/", 1, 1), 1, <<>>)

\* A file path does not begin with empty segments.
RECURSIVE trim_empty_segments(_)
trim_empty_segments(segs) ==
    IF Len(segs) > 1 /\ segs[1] = "" THEN trim_empty_segments(Tail(segs)) ELSE segs

RECURSIVE join_segments(_, _)
join_segments(segs, i) ==
    IF i > Len(segs) THEN "" ELSE "/" \o segs[i] \o join_segments(segs, i + 1)

serialize_path(segs, isFile) ==
    join_segments(IF isFile THEN trim_empty_segments(segs) ELSE segs, 1)

\* The serialized path of a hierarchical URL: p is empty or begins with '/'.
parse_path(p, isFile) ==
    IF p = "" THEN "" ELSE serialize_path(path_segments(p), isFile)

\* The URL u with the parsed host; an empty host is no host.
url_with_host(parsed, u) ==
    IF ~parsed.ok THEN ParseErr
    ELSE [u EXCEPT !.host = IF parsed.host = "" THEN NoHost
                            ELSE Some(parsed.host)]

\* The URL of a scheme with authority: raw is the text of the host, hasCol
\* tells that a ':' follows it, num is the value of the digits after the ':'
\* and rest is what follows them.
url_of_parts(scheme, raw, hasCol, digits, num, rest) ==
    IF raw = "" /\ (is_special(scheme) \/ hasCol) THEN ParseErr
    ELSE IF num < 0 \/ num > MaxPort THEN ParseErr
    ELSE url_with_host(
             IF is_special(scheme) THEN parse_special_host(raw)
             ELSE [ok |-> valid_host(raw), host |-> raw],
             [ok |-> TRUE, scheme |-> scheme, auth |-> TRUE, host |-> NoHost,
              port |-> IF digits = "" \/ num = default_port(scheme)
                       THEN NoPort ELSE num,
              path |-> IF rest = "" /\ is_special(scheme) THEN "/"
                       ELSE parse_path(rest, FALSE)])

\* Host, port and path of s: the host is s[from..hostEnd-1], the port, when
\* s has ':' at hostEnd, is s[hostEnd+1..portEnd-1].
parse_host_port(scheme, s, from, hostEnd, portEnd) ==
    url_of_parts(scheme, Sub(s, from, hostEnd - 1), hostEnd < portEnd,
                 Sub(s, hostEnd + 1, portEnd - 1),
                 parse_digits(Sub(s, hostEnd + 1, portEnd - 1), 1, 0),
                 Sub(s, portEnd, Len(s)))

\* The end of the port that may follow the host ending before hostEnd.
port_end(s, hostEnd) ==
    IF Chr(s, hostEnd) = ":" THEN find(s, hostEnd + 1, {"/"}) ELSE hostEnd

\* Host, port and path that follow "scheme://".
parse_after_slashes(scheme, s, from, hostEnd) ==
    parse_host_port(scheme, s, from, hostEnd, port_end(s, hostEnd))

parse_authority(scheme, s, from) ==
    parse_after_slashes(scheme, s, from, find(s, from, {":", "/"}))

\* The first segment of the path is a drive letter.
starts_with_drive(segs) == segs # <<>> /\ is_drive_letter(segs[1])

\* The file URL with the parsed host and the path segments segs: the host is
\* absent when empty or "localhost", and removed when the path starts with a
\* drive letter.
file_url(parsed, segs) ==
    IF ~parsed.ok THEN ParseErr
    ELSE [ok |-> TRUE, scheme |-> "file", auth |-> TRUE,
          host |-> IF parsed.host \in {"", "localhost"} \/ starts_with_drive(segs)
                   THEN NoHost ELSE Some(parsed.host),
          port |-> NoPort, path |-> serialize_path(segs, TRUE)]

\* Host and path that follow "file:"; a file URL has no port, and a drive
\* letter in the place of the host belongs to the path.
parse_file(s, from) ==
    LET slashes == Sub(s, from, from + 1) = "//"
        hostEnd == IF slashes THEN find(s, from + 2, {"/"}) ELSE from
        raw     == IF slashes THEN Sub(s, from + 2, hostEnd - 1) ELSE ""
        rest    == IF is_drive_letter(raw) THEN "/" \o Sub(s, from + 2, Len(s))
                   ELSE Sub(s, hostEnd, Len(s))
    IN  file_url(IF is_drive_letter(raw) THEN [ok |-> TRUE, host |-> ""]
                 ELSE parse_special_host(raw),
                 path_segments(IF Sub(rest, 1, 1) = "/" THEN rest
                               ELSE "/" \o rest))

\* The URL whose scheme is the first n characters of s; none when n is 0.
parse_with_scheme(s, n) ==
    LET scheme == Sub(s, 1, n)
        after  == n + 2
    IN  IF n = 0 THEN ParseErr
        ELSE IF scheme = "file" THEN parse_file(s, after)
        ELSE IF is_special(scheme) \/ Sub(s, after, after + 1) = "//" THEN
            parse_authority(scheme, s, IF is_special(scheme)
                                       THEN skip_slashes(s, after)
                                       ELSE after + 2)
        ELSE
            [ok |-> TRUE, scheme |-> scheme, auth |-> FALSE, host |-> NoHost,
             port |-> NoPort,
             path |-> IF Chr(s, after) = "/"
                      THEN parse_path(Sub(s, after, Len(s)), FALSE)
                      ELSE Sub(s, after, Len(s))]

\* Url::parse
Url_parse(s) == parse_with_scheme(s, scheme_end(s, 1))

\* Url::host_str
host_str(u) == u.host

\* Url::port
port(u) == IF u.port = NoPort THEN None ELSE Some(u.port)

\* Url::as_str; a path beginning with "//" after a scheme without authority
\* is written after "/." so that it does not read as an authority.
as_str(u) ==
    u.scheme \o ":" \o (IF u.auth THEN "//" ELSE "")
    \o (IF u.host.some THEN u.host.val ELSE "")
    \o (IF u.port = NoPort THEN "" ELSE ":" \o ToString(u.port))
    \o (IF ~u.auth /\ Sub(u.path, 1, 2) = "//" THEN "/." ELSE "")
    \o u.path

\* Url::set_port(Some(p)): Err for a URL without host and for file URLs.
set_port(u, p) ==
    IF ~u.host.some \/ u.scheme = "file" THEN [ok |-> FALSE]
    ELSE [ok |-> TRUE,
          url |-> [u EXCEPT !.port = IF p = default_port(u.scheme) THEN NoPort ELSE p]]

(***************************************************************************)
(* The process environment and the resolver                                *)
(***************************************************************************)
LowerProxyNames == {"https_proxy", "ftp_proxy", "http_proxy", "all_proxy"}

UpperProxyNames == {"HTTPS_PROXY", "FTP_PROXY", "HTTP_PROXY", "ALL_PROXY"}

ProxyNames == LowerProxyNames \cup UpperProxyNames

\* std::env::var_os: the environment e is a function from the names that
\* are set to their OsString values.
var_os(e, name) == IF name \in DOMAIN e THEN Some(e[name]) ELSE None

\* Variant: the uppercase name is looked up first.
lookup_upper_first(e, lower, upper) ==
    to_str_or_empty(or_else(var_os(e, upper), var_os(e, lower)))

\* Variant: an empty lowercase value falls through to the uppercase name.
lookup_skip_empty(e, lower, upper) ==
    LET lo == to_str_or_empty(var_os(e, lower))
    IN  IF lo.some /\ lo.val # "" THEN lo ELSE to_str_or_empty(var_os(e, upper))

\* var_os(lower).or_else(|| var_os(upper)).map(to_str().unwrap_or(""))
lookup(e, lower, upper) ==
    to_str_or_empty(or_else(var_os(e, lower), var_os(e, upper)))

\* .any(|elem| host.ends_with(elem)) over the elements of the list.
any_suffix(host, elems) == \E i \in 1..Len(elems) : ends_with(host, elems[i])

\* Variant: "*" is compared with the host like any other element.
no_proxy_matches_no_star(maybe_no_proxy, url) ==
    IF ~maybe_no_proxy.some THEN FALSE
    ELSE IF ~host_str(url).some THEN FALSE
    ELSE any_suffix(host_str(url).val, split(maybe_no_proxy.val))

\* Variant: only the first element of the list is compared.
no_proxy_matches_first_elem(maybe_no_proxy, url) ==
    IF ~maybe_no_proxy.some THEN FALSE
    ELSE IF maybe_no_proxy.val = "*" THEN TRUE
    ELSE IF ~host_str(url).some THEN FALSE
    ELSE ends_with(host_str(url).val, split(maybe_no_proxy.val)[1])

\* is_no_proxy after its lookup: maybe_no_proxy is the looked-up value.
no_proxy_matches(maybe_no_proxy, url) ==
    IF ~maybe_no_proxy.some THEN FALSE
    ELSE IF maybe_no_proxy.val = "*" THEN TRUE
    ELSE IF ~host_str(url).some THEN FALSE
    ELSE any_suffix(host_str(url).val, split(maybe_no_proxy.val))

is_no_proxy(e, url) == no_proxy_matches(lookup(e, "no_proxy", "NO_PROXY"), url)

\* Variant: https and ftp targets fall back to all_proxy directly.
select_proxy_no_http_fallback(scheme, https, ftp, http, all) ==
    CASE scheme = "https" -> or_else(https, all)
      [] scheme = "http"  -> or_else(http, all)
      [] scheme = "ftp"   -> or_else(ftp, all)
      [] OTHER            -> all

\* The match on url.scheme() that picks the value to validate.
select_proxy(scheme, https, ftp, http, all) ==
    CASE scheme = "https" -> or_else(https, or_else(http, all))
      [] scheme = "http"  -> or_else(http, all)
      [] scheme = "ftp"   -> or_else(ftp, or_else(http, all))
      [] OTHER            -> all

ProxyPort == 8080

\* Variant: the value is returned as it is, with or without a port.
with_port_not_added(url_value, proxy_url) ==
    IF ~proxy_url.ok THEN None
    ELSE IF ~host_str(proxy_url).some THEN None
    ELSE Some(url_value)

\* The checks on the parsed proxy value: host, then port; the value itself
\* when it has a port, else the URL with ProxyPort set.
with_port(url_value, proxy_url) ==
    IF ~proxy_url.ok THEN None
    ELSE IF ~host_str(proxy_url).some THEN None
    ELSE IF port(proxy_url).some THEN Some(url_value)
    ELSE IF set_port(proxy_url, ProxyPort).ok
         THEN Some(as_str(set_port(proxy_url, ProxyPort).url))
         ELSE None

\* The body of `if let Some(url_value) = ...`: parse, host, port.
validate(picked) ==
    IF ~picked.some THEN None
    ELSE with_port(picked.val, Url_parse(picked.val))

\* The value for_url picks for a parsed target.
picked_for(e, url) ==
    select_proxy(url.scheme,
                 lookup(e, "https_proxy", "HTTPS_PROXY"),
                 lookup(e, "ftp_proxy", "FTP_PROXY"),
                 lookup(e, "http_proxy", "HTTP_PROXY"),
                 lookup(e, "all_proxy", "ALL_PROXY"))

\* Variant: a target that does not parse is resolved through all_proxy.
for_parsed_unparsed(e, url) ==
    IF ~url.ok
    THEN [at |-> "validated", picked |-> lookup(e, "all_proxy", "ALL_PROXY"),
          ret |-> validate(lookup(e, "all_proxy", "ALL_PROXY"))]
    ELSE IF is_no_proxy(e, url)
         THEN [at |-> "no_proxy", picked |-> None, ret |-> None]
    ELSE [at |-> "validated", picked |-> picked_for(e, url),
          ret |-> validate(picked_for(e, url))]

\* for_url after the target was parsed into url: where it returns, what it
\* picked and what it returns.
for_parsed(e, url) ==
    IF ~url.ok THEN [at |-> "malformed", picked |-> None, ret |-> None]
    ELSE IF is_no_proxy(e, url)
         THEN [at |-> "no_proxy", picked |-> None, ret |-> None]
    ELSE [at |-> "validated", picked |-> picked_for(e, url),
          ret |-> validate(picked_for(e, url))]

for_url_run(e, s) == for_parsed(e, Url_parse(s))

for_url(e, s) == for_url_run(e, s).ret

(***************************************************************************)
(* Inputs                                                                  *)
(***************************************************************************)
\* At most MaxVars variables are set in an environment.
MaxVars == 3

\* Values of the lowercase proxy variables: a proxy with a port, one without,
\* one with the default port of its scheme, the empty string, host:port
\* without a scheme, and a value that is not UTF-8.
ProxyValues == {Os("http://p.com:3128"), Os("http://q.org"), Os("http://p.com:80"),
                Os(""), Os("p.com:3128"), NonUtf8}

\* Values of the uppercase proxy variables: a proxy with a port, and one
\* without port whose path has ".." after a plain segment and after a drive
\* letter.
UpperProxyValues == {Os("http://u.net:3128"), Os("http://u.net/a/../c:/../b")}

\* Values of no_proxy.
NoProxyValues == {Os("*"), Os(""), Os("a.org"), Os("b.org,a.org"), Os("b.org, a.org")}

\* Values of NO_PROXY.
UpperNoProxyValues == {Os("*"), Os("c.net 0.0.2"), NonUtf8}

ValuesOf(name) ==
    IF name \in LowerProxyNames THEN ProxyValues
    ELSE IF name \in UpperProxyNames THEN UpperProxyValues
    ELSE IF name = "no_proxy" THEN NoProxyValues
    ELSE UpperNoProxyValues

\* Targets: the schemes of the chains, a host written as a short IPv4
\* address, a URL without host, and a string that is not a URL.
Targets == {"http://a.org", "https://w.a.org", "ftp://c.net", "ws://c.net",
            "http://1.2", "data:x", "a.org"}

VARIABLES env, pc, target, call, lock, th

vars == <<env, pc, target, call, lock, th>>

NoCall == [at |-> "none", picked |-> None, ret |-> None]

(***************************************************************************)
(* The tests: threads that lock LOCK, scrub the environment, set           *)
(* variables and call for_url                                              *)
(***************************************************************************)
\* Number of test threads; each runs one test.
NThreads == 2

Threads == 1..NThreads

Free == 0

LockOp == [op |-> "lock"]

UnlockOp == [op |-> "unlock"]

RemoveOp(n) == [op |-> "remove_var", name |-> n]

SetOp(n, v) == [op |-> "set_var", name |-> n, val |-> Os(v)]

\* assert!(for_url(s).is_none()) and assert_eq!(for_url(s), Some(..))
CallOp(s, expect) == [op |-> "for_url", s |-> s, expect |-> expect]

scrub_env ==
    << RemoveOp("http_proxy"), RemoveOp("https_proxy"), RemoveOp("HTTPS_PROXY"),
       RemoveOp("ftp_proxy"), RemoveOp("FTP_PROXY"), RemoveOp("all_proxy"),
       RemoveOp("ALL_PROXY"), RemoveOp("no_proxy"), RemoveOp("NO_PROXY") >>

TestNames ==
    {"no_proxy_simple_name", "no_proxy_global", "no_proxy_subdomain",
     "no_proxy_subdomain_dot", "no_proxy_multiple_list", "http_proxy_specific",
     "http_proxy_fallback", "https_proxy_specific", "https_proxy_fallback",
     "ftp_proxy_specific", "ftp_proxy_fallback"}

\* The statements of a test after scrub_env().
TestBody(test) ==
    CASE test = "no_proxy_simple_name" ->
           << SetOp("no_proxy", "example.org"),
              SetOp("http_proxy", "http://proxy.example.com:8080"),
              CallOp("http://example.org", None) >>
      [] test = "no_proxy_global" ->
           << SetOp("no_proxy", "*"),
              SetOp("http_proxy", "http://proxy.example.com:8080"),
              CallOp("http://example.org", None) >>
      [] test = "no_proxy_subdomain" ->
           << SetOp("no_proxy", "example.org"),
              SetOp("http_proxy", "http://proxy.example.com:8080"),
              CallOp("http://www.example.org", None) >>
      [] test = "no_proxy_subdomain_dot" ->
           << SetOp("no_proxy", "example.org"),
              SetOp("http_proxy", "http://proxy.example.com:8080"),
              CallOp("http://www.example.org", None) >>
      [] test = "no_proxy_multiple_list" ->
           << SetOp("no_proxy", "www.example.org,www.example1.org,www.example.org"),
              SetOp("http_proxy", "http://proxy.example.com:8080"),
              CallOp("http://www.example.org", None) >>
      [] test = "http_proxy_specific" ->
           << SetOp("http_proxy", "http://proxy.example.com:8080"),
              SetOp("all_proxy", "http://proxy.example.org:8081"),
              CallOp("http://www.example.org", Some("http://proxy.example.com:8080")) >>
      [] test = "http_proxy_fallback" ->
           << SetOp("ALL_PROXY", "http://proxy.example.com:8080"),
              CallOp("http://www.example.org", Some("http://proxy.example.com:8080")),
              SetOp("all_proxy", "http://proxy.example.org:8081"),
              CallOp("http://www.example.org", Some("http://proxy.example.org:8081")) >>
      [] test = "https_proxy_specific" ->
           << SetOp("HTTPS_PROXY", "http://proxy.example.com:8080"),
              SetOp("http_proxy", "http://proxy.example.org:8081"),
              SetOp("all_proxy", "http://proxy.example.org:8081"),
              CallOp("https://www.example.org", Some("http://proxy.example.com:8080")),
              SetOp("https_proxy", "http://proxy.example.com:8081"),
              CallOp("https://www.example.org", Some("http://proxy.example.com:8081")) >>
      [] test = "https_proxy_fallback" ->
           << SetOp("http_proxy", "http://proxy.example.com:8080"),
              SetOp("ALL_PROXY", "http://proxy.example.org:8081"),
              CallOp("https://www.example.org", Some("http://proxy.example.com:8080")),
              RemoveOp("http_proxy"),
              CallOp("https://www.example.org", Some("http://proxy.example.org:8081")),
              SetOp("all_proxy", "http://proxy.example.org:8082"),
              CallOp("https://www.example.org", Some("http://proxy.example.org:8082")) >>
      [] test = "ftp_proxy_specific" ->
           << SetOp("FTP_PROXY", "http://proxy.example.com:8080"),
              SetOp("http_proxy", "http://proxy.example.org:8081"),
              SetOp("all_proxy", "http://proxy.example.org:8081"),
              CallOp("ftp://www.example.org", Some("http://proxy.example.com:8080")),
              SetOp("ftp_proxy", "http://proxy.example.com:8081"),
              CallOp("ftp://www.example.org", Some("http://proxy.example.com:8081")) >>
      [] test = "ftp_proxy_fallback" ->
           << SetOp("http_proxy", "http://proxy.example.com:8080"),
              SetOp("ALL_PROXY", "http://proxy.example.org:8081"),
              CallOp("ftp://www.example.org", Some("http://proxy.example.com:8080")),
              RemoveOp("http_proxy"),
              CallOp("ftp://www.example.org", Some("http://proxy.example.org:8081")),
              SetOp("all_proxy", "http://proxy.example.org:8082"),
              CallOp("ftp://www.example.org", Some("http://proxy.example.org:8082")) >>

\* A test: let _l = LOCK.lock(); scrub_env(); the body; _l dropped.
Script(test) == <<LockOp>> \o scrub_env \o TestBody(test) \o <<UnlockOp>>

\* The lowercase names in the order for_url looks the pairs up.
Pairs == <<"no_proxy", "https_proxy", "ftp_proxy", "http_proxy", "all_proxy">>

UpperOf(k) ==
    << "NO_PROXY", "HTTPS_PROXY", "FTP_PROXY", "HTTP_PROXY", "ALL_PROXY" >>[k]

\* set_var / remove_var on an environment.
set_var(e, name, v) == [n \in DOMAIN e \cup {name} |-> IF n = name THEN v ELSE e[n]]

remove_var(e, name) == [n \in DOMAIN e \ {name} |-> e[n]]

EmptyEnv == [n \in {} |-> Os("")]

\* A thread: the test it runs, its statement (ip), its place inside a
\* for_url call (at, k, vals), the result of the call, and view, the
\* environment as the thread's own statements leave it.
IdleThread ==
    [test |-> "none", ip |-> 0, at |-> "stmt", k |-> 0, vals |-> <<>>,
     ret |-> None, view |-> EmptyEnv, failed |-> FALSE, done |-> FALSE]

CurOp(t) == Script(th[t].test)[th[t].ip]

Running(t) == th[t].test # "none" /\ ~th[t].done

AtStmt(t, op) == Running(t) /\ th[t].at = "stmt" /\ CurOp(t).op = op

\* Variant: the guard is taken without waiting for its holder.
can_lock_unguarded(t) == TRUE

\* Mutex::lock blocks while another thread holds the guard.
can_lock(t) == lock = Free

\* The environment the test process starts with.
InheritedEnvs ==
    {EmptyEnv, set_var(EmptyEnv, "HTTP_PROXY", Os("http://corp.example.com:3128"))}

InitTests ==
    /\ env \in InheritedEnvs
    /\ pc = "tests"
    /\ target = ""
    /\ call = NoCall
    /\ lock = Free
    /\ th = [t \in Threads |-> IdleThread]

\* The harness hands a test to a thread.
StartTest(t, test) ==
    /\ th[t].test = "none"
    /\ th' = [th EXCEPT ![t].test = test, ![t].ip = 1]
    /\ UNCHANGED <<env, pc, target, call, lock>>

\* let _l = LOCK.lock();
Lock(t) ==
    /\ AtStmt(t, "lock")
    /\ can_lock(t)
    /\ lock' = t
    /\ th' = [th EXCEPT ![t].ip = @ + 1, ![t].view = env]
    /\ UNCHANGED <<env, pc, target, call>>

\* remove_var(name)
RemoveVar(t) ==
    /\ AtStmt(t, "remove_var")
    /\ env' = remove_var(env, CurOp(t).name)
    /\ th' = [th EXCEPT ![t].ip = @ + 1,
                        ![t].view = remove_var(@, CurOp(t).name)]
    /\ UNCHANGED <<pc, target, call, lock>>

\* set_var(name, value)
SetVar(t) ==
    /\ AtStmt(t, "set_var")
    /\ env' = set_var(env, CurOp(t).name, CurOp(t).val)
    /\ th' = [th EXCEPT ![t].ip = @ + 1,
                        ![t].view = set_var(@, CurOp(t).name, CurOp(t).val)]
    /\ UNCHANGED <<pc, target, call, lock>>

\* for_url up to its first lookup: Url::parse(s).
CallBegin(t) ==
    /\ AtStmt(t, "for_url")
    /\ IF Url_parse(CurOp(t).s).ok
       THEN th' = [th EXCEPT ![t].at = "lower", ![t].k = 1, ![t].vals = <<>>]
       ELSE th' = [th EXCEPT ![t].at = "assert", ![t].ret = None]
    /\ UNCHANGED <<env, pc, target, call, lock>>

\* The thread after pair k was looked up with value v: is_no_proxy returns
\* after the first pair, for_url after the last.
AfterLookup(t, v) ==
    LET r    == th[t]
        vals == Append(r.vals, v)
        url  == Url_parse(CurOp(t).s)
    IN  IF r.k = 1 /\ no_proxy_matches(v, url)
        THEN [r EXCEPT !.at = "assert", !.ret = None, !.vals = vals]
        ELSE IF r.k = Len(Pairs)
        THEN [r EXCEPT !.at = "assert", !.vals = vals,
                       !.ret = validate(select_proxy(url.scheme, vals[2], vals[3],
                                                     vals[4], vals[5]))]
        ELSE [r EXCEPT !.at = "lower", !.k = @ + 1, !.vals = vals]

\* var_os(lowercase name) of the current pair.
ReadLower(t) ==
    /\ Running(t) /\ th[t].at = "lower"
    /\ LET v == var_os(env, Pairs[th[t].k])
       IN  IF v.some
           THEN th' = [th EXCEPT ![t] = AfterLookup(t, to_str_or_empty(v))]
           ELSE th' = [th EXCEPT ![t].at = "upper"]
    /\ UNCHANGED <<env, pc, target, call, lock>>

\* .or_else(|| var_os(uppercase name)) of the current pair.
ReadUpper(t) ==
    /\ Running(t) /\ th[t].at = "upper"
    /\ th' = [th EXCEPT ![t] = AfterLookup(t, to_str_or_empty(var_os(env, UpperOf(th[t].k))))]
    /\ UNCHANGED <<env, pc, target, call, lock>>

\* The assertion on the result: the test goes on, or panics and unwinds to
\* the end of the test, where the guard is dropped.
CheckResult(t) ==
    /\ Running(t) /\ th[t].at = "assert"
    /\ IF th[t].ret = CurOp(t).expect
       THEN th' = [th EXCEPT ![t].at = "stmt", ![t].ip = @ + 1]
       ELSE th' = [th EXCEPT ![t].at = "stmt", ![t].failed = TRUE,
                             ![t].ip = Len(Script(th[t].test))]
    /\ UNCHANGED <<env, pc, target, call, lock>>

\* _l goes out of scope.
Unlock(t) ==
    /\ AtStmt(t, "unlock")
    /\ lock' = IF lock = t THEN Free ELSE lock
    /\ th' = [th EXCEPT ![t].done = TRUE]
    /\ UNCHANGED <<env, pc, target, call>>

NextTests ==
    \E t \in Threads :
        \/ \E test \in TestNames : StartTest(t, test)
        \/ Lock(t)
        \/ RemoveVar(t)
        \/ SetVar(t)
        \/ CallBegin(t)
        \/ ReadLower(t)
        \/ ReadUpper(t)
        \/ CheckResult(t)
        \/ Unlock(t)

SpecTests == InitTests /\ [][NextTests]_vars

(***************************************************************************)
(* A single call                                                           *)
(***************************************************************************)
Init ==
    /\ \E A \in SUBSET LowerProxyNames, B \in SUBSET UpperProxyNames,
          C \in SUBSET {"no_proxy"}, D \in SUBSET {"NO_PROXY"} :
         /\ Cardinality(A) + Cardinality(B) + Cardinality(C) + Cardinality(D) <= MaxVars
         /\ \E a \in [A -> ProxyValues], b \in [B -> UpperProxyValues],
               c \in [C -> NoProxyValues], d \in [D -> UpperNoProxyValues] :
              env = a @@ b @@ c @@ d
    /\ target \in Targets
    /\ pc = "start"
    /\ call = NoCall
    /\ lock = Free
    /\ th = [t \in Threads |-> IdleThread]

\* One call of for_url(target) in the environment env.
ForUrl ==
    /\ pc = "start"
    /\ call' = for_url_run(env, target)
    /\ pc' = "returned"
    /\ UNCHANGED <<env, target, lock, th>>

Next == ForUrl

Spec == Init /\ [][Next]_vars

(***************************************************************************)
(* Vocabulary of the properties                                            *)
(***************************************************************************)
LowerNames == {"https_proxy", "ftp_proxy", "http_proxy", "all_proxy", "no_proxy"}

Upper(lo) ==
    CASE lo = "https_proxy" -> "HTTPS_PROXY"
      [] lo = "ftp_proxy"   -> "FTP_PROXY"
      [] lo = "http_proxy"  -> "HTTP_PROXY"
      [] lo = "all_proxy"   -> "ALL_PROXY"
      [] lo = "no_proxy"    -> "NO_PROXY"

IsSet(e, name) == name \in DOMAIN e

\* A pair is present when either of its names is set.
Present(e, lo) == IsSet(e, lo) \/ IsSet(e, Upper(lo))

Text(v) == IF v.utf8 THEN v.text ELSE ""

\* The variable a present pair is read from: the lowercase one when set.
Source(e, lo) == IF IsSet(e, lo) THEN e[lo] ELSE e[Upper(lo)]

\* The text of a present pair.
Effective(e, lo) == Text(Source(e, lo))

\* The fallback chain of a scheme, highest priority first.
Chain(scheme) ==
    CASE scheme = "https" -> <<"https_proxy", "http_proxy", "all_proxy">>
      [] scheme = "http"  -> <<"http_proxy", "all_proxy">>
      [] scheme = "ftp"   -> <<"ftp_proxy", "http_proxy", "all_proxy">>
      [] OTHER            -> <<"all_proxy">>

PresentIn(e, ch) == {i \in 1..Len(ch) : Present(e, ch[i])}

FirstIn(e, ch) == CHOOSE i \in PresentIn(e, ch) : \A j \in PresentIn(e, ch) : i <= j

Returned == pc = "returned"

\* The targets as Url::parse gives them.
ParsedTargets == [t \in Targets |-> Url_parse(t)]

TargetUrl == ParsedTargets[target]

\* The non-empty pieces of v between separators that are suffixes of h.
MatchingTokens(v, h) ==
    {<<i, j>> \in (1..Len(v)) \X (1..Len(v)) :
        /\ i <= j
        /\ \A k \in i..j : ~IsSep(Chr(v, k))
        /\ i = 1 \/ IsSep(Chr(v, i - 1))
        /\ j = Len(v) \/ IsSep(Chr(v, j + 1))
        /\ ends_with(h, Sub(v, i, j))}

\* The text s writes a port after its host: "scheme://host:digits".
WritesPort(s) ==
    \E i \in 1..Len(s) :
        /\ Sub(s, i, i + 2) = "://"
        /\ \A k \in 1..(i - 1) : Chr(s, k) # ":"
        /\ LET h == find(s, i + 3, {":", "/"})
           IN  /\ h <= Len(s)
               /\ Chr(s, h) = ":"
               /\ h + 1 <= Len(s)
               /\ Chr(s, h + 1) \in Digit

(***************************************************************************)
(* Properties                                                              *)
(***************************************************************************)
\* C1: when the no-proxy check does not exclude the target, the value picked
\* for validation is the effective value of the first present pair of the
\* scheme's chain, and with no present pair nothing is picked and the result
\* is None.
C1_SchemeChain ==
    (Returned /\ call.at = "validated") =>
        LET ch == Chain(TargetUrl.scheme)
        IN  IF PresentIn(env, ch) = {}
            THEN call.picked = None /\ call.ret = None
            ELSE call.picked = Some(Effective(env, ch[FirstIn(env, ch)]))

\* An ftp target falls back from an absent ftp_proxy to http_proxy while
\* https_proxy is set and left alone.
C1_Witness ==
    /\ Returned /\ call.at = "validated"
    /\ TargetUrl.scheme = "ftp"
    /\ ~Present(env, "ftp_proxy")
    /\ IsSet(env, "https_proxy") /\ IsSet(env, "http_proxy") /\ IsSet(env, "ALL_PROXY")
    /\ env["https_proxy"] # env["http_proxy"]
    /\ env["ALL_PROXY"] # env["http_proxy"]
    /\ call.picked = Some(Text(env["http_proxy"]))

\* C2: for each of the five pairs, when both names are set the result is the
\* same whatever the uppercase value is and also with the uppercase name
\* unset; when only the uppercase name is set the result is the one its
\* value gives under the lowercase name.
C2_LowercaseFirst ==
    Returned =>
        \A lo \in LowerNames :
            /\ (IsSet(env, lo) /\ IsSet(env, Upper(lo))) =>
                  /\ call.ret = for_url(remove_var(env, Upper(lo)), target)
                  /\ \A v \in ValuesOf(lo) \cup ValuesOf(Upper(lo)) :
                        call.ret = for_url(set_var(env, Upper(lo), v), target)
            /\ (~IsSet(env, lo) /\ IsSet(env, Upper(lo))) =>
                  call.ret = for_url(set_var(remove_var(env, Upper(lo)), lo,
                                             env[Upper(lo)]), target)

\* Both http_proxy and HTTP_PROXY hold usable, different proxies and the
\* lowercase one is returned.
C2_Witness ==
    /\ Returned
    /\ IsSet(env, "http_proxy") /\ IsSet(env, "HTTP_PROXY")
    /\ env["http_proxy"] = Os("http://p.com:3128")
    /\ env["HTTP_PROXY"] = Os("http://u.net:3128")
    /\ TargetUrl.ok /\ TargetUrl.scheme = "http"
    /\ call.ret = Some("http://p.com:3128")

IsStar(e, name) == IsSet(e, name) /\ e[name] = Os("*")

\* C3 as stated: with no_proxy or NO_PROXY exactly "*", the result is None
\* whatever the other variables hold, the other-case no-proxy variable
\* included.
C3_AnyStar ==
    (Returned /\ (IsStar(env, "no_proxy") \/ IsStar(env, "NO_PROXY"))) =>
        call.ret = None

\* C3 amended: when the effective no-proxy value (no_proxy if it is set,
\* else NO_PROXY) is exactly "*", the result is None whatever the proxy
\* variables hold.
C3_EffectiveStar ==
    (Returned /\ Present(env, "no_proxy") /\ Effective(env, "no_proxy") = "*") =>
        call.ret = None

\* NO_PROXY alone is "*" and the target's scheme has a usable proxy.
C3_Witness ==
    /\ Returned
    /\ ~IsSet(env, "no_proxy") /\ IsStar(env, "NO_PROXY")
    /\ TargetUrl.ok
    /\ validate(picked_for(env, TargetUrl)).some
    /\ call.ret = None

\* C4: when the target has host H and the effective no-proxy value has a
\* token that H ends with, the result is None whatever the proxy variables.
C4_SuffixToken ==
    (/\ Returned
     /\ TargetUrl.ok /\ TargetUrl.host.some
     /\ Present(env, "no_proxy")
     /\ MatchingTokens(Effective(env, "no_proxy"), TargetUrl.host.val) # {}) =>
        call.ret = None

\* The second token of the list is a proper suffix of the host, and a usable
\* proxy is set for the target.
C4_Witness ==
    /\ Returned
    /\ Present(env, "no_proxy") /\ Effective(env, "no_proxy") = "b.org,a.org"
    /\ TargetUrl.ok /\ TargetUrl.host = Some("w.a.org")
    /\ validate(picked_for(env, TargetUrl)).some
    /\ call.ret = None

PickedUrl == Url_parse(call.picked.val)

\* C5 as stated: when the picked value parses to a URL with a host, a value
\* that writes a port is returned unchanged, and a value that writes none is
\* returned as its serialization with port 8080.
C5_PortKept ==
    (/\ Returned /\ call.at = "validated" /\ call.picked.some
     /\ PickedUrl.ok /\ PickedUrl.host.some) =>
        IF WritesPort(call.picked.val)
        THEN call.ret = call.picked
        ELSE /\ call.ret.some
             /\ Url_parse(call.ret.val) = [PickedUrl EXCEPT !.port = ProxyPort]

\* C6: a returned string parses as a URL with a non-empty host and a port,
\* and writes that port.
C6_ResultShape ==
    (Returned /\ call.ret.some) =>
        LET u == Url_parse(call.ret.val)
        IN  /\ u.ok
            /\ u.host.some /\ u.host.val # ""
            /\ u.port # NoPort
            /\ WritesPort(call.ret.val)

\* The picked value has no port and the result is its serialization with
\* port 8080.
C6_Witness ==
    /\ Returned /\ call.picked = Some("http://q.org")
    /\ call.ret = Some("http://q.org:8080/")

\* C7: a call never changes the environment, and a target that does not
\* parse returns None.
C7_MalformedNone ==
    [][pc' = "returned" =>
          /\ env' = env
          /\ ~Url_parse(target).ok => call'.ret = None]_vars

\* A target without scheme returned None although all_proxy is usable.
C7_Witness ==
    /\ Returned /\ target = "a.org"
    /\ IsSet(env, "all_proxy") /\ validate(Some(Text(env["all_proxy"]))).some
    /\ ~Present(env, "no_proxy")
    /\ call.ret = None

\* C8 as stated: a no-proxy value other than "*" excludes a target only
\* through a non-empty token its host ends with; otherwise the call returns
\* what the scheme's proxy variables give.
C8_EmptyTokens ==
    (/\ Returned
     /\ TargetUrl.ok /\ TargetUrl.host.some
     /\ Present(env, "no_proxy") /\ Source(env, "no_proxy").utf8
     /\ Effective(env, "no_proxy") # "*"
     /\ MatchingTokens(Effective(env, "no_proxy"), TargetUrl.host.val) = {}) =>
        call.ret = validate(picked_for(env, TargetUrl))

\* C9: when the first present pair of the chain has a value that does not
\* parse, or parses without host, the result is None; the empty string is
\* such a value, and neither the uppercase name nor a later pair is tried.
C9_NoFallback ==
    (/\ Returned /\ TargetUrl.ok
     /\ PresentIn(env, Chain(TargetUrl.scheme)) # {}) =>
        LET ch == Chain(TargetUrl.scheme)
            v  == Effective(env, ch[FirstIn(env, ch)])
            u  == Url_parse(v)
        IN  (~u.ok \/ ~u.host.some) => call.ret = None

\* http_proxy is empty while HTTP_PROXY and all_proxy hold usable proxies,
\* and the call got as far as validation.
C9_Witness ==
    /\ Returned /\ call.at = "validated"
    /\ TargetUrl.scheme = "http"
    /\ IsSet(env, "http_proxy") /\ env["http_proxy"] = Os("")
    /\ IsSet(env, "HTTP_PROXY") /\ validate(Some(Text(env["HTTP_PROXY"]))).some
    /\ IsSet(env, "all_proxy") /\ validate(Some(Text(env["all_proxy"]))).some
    /\ call.ret = None

\* C10: with every test holding LOCK from before scrub_env to its end, each
\* for_url call returns what resolution over the environment left by the
\* calling thread's own statements returns, under every interleaving.
C10_LockedCallsStable ==
    \A t \in Threads :
        (Running(t) /\ th[t].at = "assert") =>
            th[t].ret = for_url(th[t].view, CurOp(t).s)

\* A call returned a proxy while another thread, already handed its test,
\* waits for LOCK.
C10_Witness ==
    \E t, o \in Threads :
        /\ t # o
        /\ Running(t) /\ th[t].at = "assert" /\ th[t].ret.some
        /\ Running(o) /\ AtStmt(o, "lock")

====
